---- MODULE Spec2Model ----
(***************************************************************************)
(* The model registry of src/models/model_api.py (class Models): the      *)
(* in-memory catalogue of model records and fitted artifacts, the id      *)
(* counter, the process-wide task type, the candidate table filled by     *)
(* get_available_model, and the object-storage bucket the registry writes *)
(* to.  Every public method is one action; a call runs to completion.     *)
(*                                                                         *)
(* Python values are represented as follows: a dict is a function from    *)
(* its keys (strings) to its values, a list is a sequence, None is the    *)
(* one-field record NoneValue, an estimator object is the string of its   *)
(* constructor call.  A response is [kind, msg, value]: kind "return" for *)
(* a normal return, "abort" for flask.abort(Response(msg)), "raise" for   *)
(* an exception that the method does not catch (msg is its type).         *)
(***************************************************************************)
EXTENDS Integers, Sequences, FiniteSets, TLC

VARIABLES
    models,            \* self.models: list of record dicts
    fitted_models,     \* self.fitted_models: list of artifact dicts
    counter,           \* self.counter
    task_type,         \* self.task_type
    available_models,  \* self.available_models: task type -> {class name: class}
    storage,           \* the bucket: key -> stored body
    lastOp,            \* the request that was served last (and what its put_object did)
    result,            \* its response
    created,           \* ids handed out by create_model, in creation order
    nops,              \* number of requests served
    pc,                \* per server thread: the statement of create_model it is at
    frame,             \* per server thread: the locals of its create_model call
    race               \* what happened between threads so far

vars == <<models, fitted_models, counter, task_type, available_models,
          storage, lastOp, result, created, nops, pc, frame, race>>

threads == <<pc, frame, race>>

registry == <<models, fitted_models, counter, task_type, available_models, storage>>

-----------------------------------------------------------------------------
(* Bounds of the model *)

MaxOps == 5          \* requests served in one behaviour
MaxModels == 2       \* create_model calls that are served once counter reaches it: none
MinTarget == 1       \* targets of the samples range over -MinTarget .. Cutoff + MaxTargetOver
MaxTargetOver == 1
MaxCalls == 3        \* create_model calls started by the server threads together

-----------------------------------------------------------------------------
(* Constants of Models.__init__ *)

Cutoff == 10
Decimals == 4

TaskTypes == {"regression", "binary", "multiclass"}

METRICS_DICT ==
    [regression |-> "mean_squared_error",
     binary     |-> "roc_auc_score",
     multiclass |-> "f1_score"]

MODELS_DICT ==
    [regression |-> <<"Ridge">>,
     binary     |-> <<"LogisticRegression", "CatBoostClassifier", "DecisionTreeClassifier">>,
     multiclass |-> <<"RandomForestClassifier", "CatBoostClassifier", "DecisionTreeClassifier">>]

KEY_MODEL == "lapiml_models.pkl"

\* a key of its own for every model id
EstimatorKeyPerModel(model_id) ==
    IF model_id = 1 THEN KEY_MODEL ELSE "model/" \o KEY_MODEL

\* Key=self.KEY_MODEL in fit, whatever the model_id
EstimatorKey(model_id) == KEY_MODEL

\* os.path.join("src", KEY_MODEL)
RecordKey == "src/" \o KEY_MODEL

NotFitted == "Not fitted"
Fitted == "Fitted"

NoneValue == [NoneType |-> TRUE]
EmptyDict == [k \in {} |-> 0]

-----------------------------------------------------------------------------
(* Helpers *)

Range(s) == {s[i] : i \in 1..Len(s)}

Ids(ms) == {ms[i]["model_id"] : i \in 1..Len(ms)}

\* the dict is replaced by the patch
DictReplace(d, p) == p

\* dict.update: the keys of p are written over d
DictUpdate(d, p) ==
    [k \in (DOMAIN d) \cup (DOMAIN p) |-> IF k \in DOMAIN p THEN p[k] ELSE d[k]]

\* d[key] = value on a dict
DictSet(d, key, value) ==
    [k \in (DOMAIN d) \cup {key} |-> IF k = key THEN value ELSE d[k]]

\* for ... in ms: if m['model_id'] == model_id: return m    (0: the loop ends)
FindIndex(ms, model_id) ==
    IF \E i \in 1..Len(ms) : ms[i]["model_id"] = model_id
    THEN CHOOSE i \in 1..Len(ms) :
            /\ ms[i]["model_id"] = model_id
            /\ \A j \in 1..(i - 1) : ms[j]["model_id"] # model_id
    ELSE 0

\* list.pop() in place of list.remove(x)
ListRemoveLast(s, x) == SubSeq(s, 1, Len(s) - 1)

\* list.remove(x): the first element equal to x is taken out
ListRemove(s, x) ==
    LET i == CHOOSE i \in 1..Len(s) : s[i] = x /\ \A j \in 1..(i - 1) : s[j] # x
    IN  [j \in 1..(Len(s) - 1) |-> IF j < i THEN s[j] ELSE s[j + 1]]

Return(v)  == [kind |-> "return", msg |-> "", value |-> v]
Abort(m)   == [kind |-> "abort", msg |-> m, value |-> NoneValue]
Raise(exc) == [kind |-> "raise", msg |-> exc, value |-> NoneValue]

\* pickle.dumps(obj)
Pickle(obj) == [pickled |-> obj]

\* S3_CLIENT.put_object(Body, Bucket, Key) when the write reaches the bucket
PutObject(st, key, body) ==
    [k \in (DOMAIN st) \cup {key} |-> IF k = key THEN body ELSE st[k]]

\* What a put_object call can do: store the body, or fail, and a failed call
\* either returns or raises; the call sites look at neither.
PutOutcomes == {"stored", "lost", "raised"}

\* a failed write is repeated until it succeeds
AfterPutRetry(st, key, body, outcome) == PutObject(st, key, body)

AfterPut(st, key, body, outcome) ==
    IF outcome = "stored" THEN PutObject(st, key, body) ELSE st

\* the response of a method whose last statement before `return v` is put_object
PutResult(outcome, v) ==
    IF outcome = "raised" THEN Raise("StorageError") ELSE Return(v)

-----------------------------------------------------------------------------
(* Models.__init__ *)

\* the threads of the hosting server that call into the one Models object
Threads == {"A", "B"}

IdleFrame == [model_name |-> "", ml_dic |-> NoneValue, fitted |-> NoneValue,
              response |-> NoneValue]

Init ==
    /\ models = <<>>
    /\ fitted_models = <<>>
    /\ counter = 0
    /\ task_type = "multiclass"
    /\ available_models = EmptyDict
    /\ storage = EmptyDict
    /\ lastOp = [op |-> "__init__"]
    /\ result = Return(NoneValue)
    /\ created = <<>>
    /\ nops = 0
    /\ pc = [t \in Threads |-> "idle"]
    /\ frame = [t \in Threads |-> IdleFrame]
    /\ race = [overlap |-> FALSE, rolled |-> {}, by |-> <<>>]

\* one request served from its first statement to its last, no other in between
Served(op) ==
    /\ nops < MaxOps
    /\ nops' = nops + 1
    /\ lastOp' = op
    /\ UNCHANGED threads

-----------------------------------------------------------------------------
(* Models._get_task_type and Models.get_available_model *)

Targets == (0 - MinTarget) .. (Cutoff + MaxTargetOver)

\* target >= cutoff in place of target > cutoff
GetTaskTypeInclusive(target, cutoff) ==
    IF target = 2 THEN "binary"
    ELSE IF target >= cutoff THEN "regression"
    ELSE "multiclass"

GetTaskType(target, cutoff) ==
    IF target = 2 THEN "binary"
    ELSE IF target > cutoff THEN "regression"
    ELSE "multiclass"

\* {md.__name__: md for md in MODELS_DICT[task]}: the dict is modelled by its keys
CandidateNames(task) == Range(MODELS_DICT[task])

GetAvailableModel(target) ==
    LET tt == GetTaskType(target, Cutoff) IN
    /\ Served([op |-> "get_available_model", target |-> target])
    /\ task_type' = tt
    /\ available_models' = DictSet(available_models, tt, CandidateNames(tt))
    /\ result' = Return([task |-> tt, names |-> MODELS_DICT[tt]])
    /\ UNCHANGED <<models, fitted_models, counter, storage, created>>

\* a sample without a 'target' column: target.loc[:, 'target'] raises KeyError
GetAvailableModelNoTarget ==
    /\ Served([op |-> "get_available_model", target |-> "missing"])
    /\ result' = Raise("KeyError")
    /\ UNCHANGED <<registry, created>>

-----------------------------------------------------------------------------
(* Models.create_model *)

CreateNames == {"Ridge", "LogisticRegression", "regression", "binary", ""}

\* self.available_models is None or model_name in self.MODELS_DICT
\* (available_models is a defaultdict and never None; `in` on a dict tests its keys)
NameAccepted(model_name) == model_name \in DOMAIN MODELS_DICT

\* the rejected call leaves the counter incremented
RollBackMissing(c) == c

\* self.counter -= 1
RollBack(c) == c - 1

\* the record is given the constructor's default task type
NewRecordFixedTask(id, name, task) ==
    [model_id   |-> id,
     model_name |-> name,
     task_type  |-> "multiclass",
     model      |-> "Not fitted",
     scores     |-> [k \in {} |-> 0]]

NewRecord(id, name, task) ==
    [model_id   |-> id,
     model_name |-> name,
     task_type  |-> task,
     model      |-> NotFitted,
     scores     |-> EmptyDict]

NewFitted(id) == [model_id |-> id, model |-> NotFitted]

CreateModel(model_name) ==
    LET c      == counter + 1
        ml_dic == NewRecord(c, model_name, task_type)
        fitted == NewFitted(c)
    IN
    /\ counter < MaxModels
    /\ IF NameAccepted(model_name)
       THEN \E put \in PutOutcomes :
            /\ Served([op |-> "create_model", model_name |-> model_name, put |-> put])
            /\ counter' = c
            /\ models' = Append(models, ml_dic)
            /\ fitted_models' = Append(fitted_models, fitted)
            /\ storage' = AfterPut(storage, RecordKey, Pickle(ml_dic), put)
            /\ result' = PutResult(put, ml_dic)
            /\ created' = Append(created, c)
       ELSE /\ Served([op |-> "create_model", model_name |-> model_name, put |-> "no call"])
            /\ counter' = RollBack(c)
            /\ result' = Abort("Wrong model name")
            /\ UNCHANGED <<models, fitted_models, storage, created>>
    /\ UNCHANGED <<task_type, available_models>>

-----------------------------------------------------------------------------
(* Models.get_model and Models.get_fitted_model *)

ModelIds == 1..MaxModels

\* get_model made to end like get_fitted_model
GetModelReturningNone(ms, model_id) ==
    IF FindIndex(ms, model_id) # 0
    THEN Return(ms[FindIndex(ms, model_id)])
    ELSE Return(NoneValue)

\* the response of get_model(model_id)
GetModel(ms, model_id) ==
    IF FindIndex(ms, model_id) # 0
    THEN Return(ms[FindIndex(ms, model_id)])
    ELSE Abort("does not exist")

\* get_fitted_model made to fail like get_model
GetFittedModelAborting(fs, model_id) ==
    IF FindIndex(fs, model_id) # 0
    THEN Return(fs[FindIndex(fs, model_id)])
    ELSE Abort("does not exist")

\* the response of get_fitted_model(model_id): falls off the loop, returns None
GetFittedModel(fs, model_id) ==
    IF FindIndex(fs, model_id) # 0
    THEN Return(fs[FindIndex(fs, model_id)])
    ELSE Return(NoneValue)

GetModelOp(model_id) ==
    /\ Served([op |-> "get_model", model_id |-> model_id])
    /\ result' = GetModel(models, model_id)
    /\ UNCHANGED <<registry, created>>

GetFittedModelOp(model_id) ==
    /\ Served([op |-> "get_fitted_model", model_id |-> model_id])
    /\ result' = GetFittedModel(fitted_models, model_id)
    /\ UNCHANGED <<registry, created>>

-----------------------------------------------------------------------------
(* Models.update_model *)

PatchNames == {"Ridge", "LogisticRegression"}

\* the dicts a client passes: with a model_id and one more key, or without a model_id
Patches ==
    {[model_id |-> id] : id \in ModelIds}
    \cup {[model_id |-> id, model_name |-> n] : id \in ModelIds, n \in PatchNames}
    \cup {[model_id |-> id, model |-> Fitted] : id \in ModelIds}
    \cup {[model_id |-> id, note |-> "x"] : id \in ModelIds}
    \cup {[note |-> "x"], [model_name |-> "Ridge"]}

\* ml_model.update(model_dict) on the record at index i
MergeInto(ms, i, model_dict) ==
    [ms EXCEPT ![i] = DictUpdate(ms[i], model_dict)]

UpdateModel(model_dict) ==
    /\ Served([op |-> "update_model", is_dict |-> TRUE, patch |-> model_dict])
    /\ IF "model_id" \notin DOMAIN model_dict
       THEN \* model_dict['model_id'] raises KeyError
            /\ result' = Abort("Incorrect dictionary passed.")
            /\ UNCHANGED models
       ELSE IF FindIndex(models, model_dict["model_id"]) = 0
       THEN /\ result' = GetModel(models, model_dict["model_id"])
            /\ UNCHANGED models
       ELSE /\ models' = MergeInto(models, FindIndex(models, model_dict["model_id"]), model_dict)
            /\ result' = Return(NoneValue)
    /\ UNCHANGED <<fitted_models, counter, task_type, available_models, storage, created>>

\* a list, a string, a number or None is passed: model_dict['model_id'] raises TypeError
UpdateModelNotADict ==
    /\ Served([op |-> "update_model", is_dict |-> FALSE, patch |-> NoneValue])
    /\ result' = Abort("Dictionary should be passed.")
    /\ UNCHANGED <<registry, created>>

-----------------------------------------------------------------------------
(* Models.delete_model *)

\* the artifact is left behind
RemoveFittedSkipped(fs, f) == fs

\* self.fitted_models.remove(fitted_model)
RemoveFitted(fs, f) == ListRemove(fs, fs[f])

\* self.models.remove(model)
RemoveModel(ms, i) == ListRemove(ms, ms[i])

DeleteModel(model_id) ==
    LET i == FindIndex(models, model_id)
        f == FindIndex(fitted_models, model_id)
    IN
    /\ Served([op |-> "delete_model", model_id |-> model_id])
    /\ IF i = 0
       THEN /\ result' = GetModel(models, model_id)
            /\ UNCHANGED <<models, fitted_models>>
       ELSE IF f = 0
       THEN \* fitted_models.remove(None) raises ValueError before models is touched
            /\ result' = Raise("ValueError")
            /\ UNCHANGED <<models, fitted_models>>
       ELSE /\ fitted_models' = RemoveFitted(fitted_models, f)
            /\ models' = RemoveModel(models, i)
            /\ result' = Return(NoneValue)
    /\ UNCHANGED <<counter, task_type, available_models, storage, created>>

-----------------------------------------------------------------------------
(* Models._get_dataframe and Models.fit *)

\* the datasets a client passes: with a target column, without one, or None
Datasets == {"labeled", "unlabeled", "none"}

\* _get_dataframe(data) returns; otherwise drop(columns='target') raises KeyError
HasTarget(data) == data = "labeled"

\* the estimator object  cls(**params)
Construct(cls, task) ==
    IF task = "multiclass"
    THEN cls \o "(random_state=1488, loss_function='MultiClass')"
    ELSE cls \o "(random_state=1488)"

AllClassNames == UNION {CandidateNames(t) : t \in TaskTypes}

\* the estimators that have a predict_proba method: the classifiers
HasPredictProba(est) ==
    est \in {Construct(c, t) : c \in AllClassNames \ {"Ridge"}, t \in TaskTypes}

\* the status is written to the first record of the list
MarkFittedFirst(ms, i) == [ms EXCEPT ![1] = DictSet(ms[1], "model", Fitted)]

\* model_dict['model'] = 'Fitted'
MarkFitted(ms, i) == [ms EXCEPT ![i] = DictSet(ms[i], "model", Fitted)]

\* the estimator is not stored
StoreEstimatorSkipped(fs, f, algo) == fs

\* fitted_model['model'] = algo
StoreEstimator(fs, f, algo) == [fs EXCEPT ![f] = DictSet(fs[f], "model", algo)]

\* The constructor call cls(**params) and algo.fit(X, y) are library code: they
\* return (est_ok) or raise.
Fit(model_id, data) ==
    LET i    == FindIndex(models, model_id)
        f    == FindIndex(fitted_models, model_id)
        name == models[i]["model_name"]
        algo == Construct(name, task_type)
        req(put) == [op |-> "fit", model_id |-> model_id, data |-> data, put |-> put]
        fails(r) == /\ Served(req("no call"))
                    /\ result' = r
                    /\ UNCHANGED <<models, fitted_models, storage>>
    IN
    /\ IF ~HasTarget(data) THEN fails(Raise("KeyError"))
       ELSE IF i = 0 THEN fails(GetModel(models, model_id))
       ELSE IF task_type \notin DOMAIN available_models THEN fails(Raise("KeyError"))
       ELSE IF name \notin available_models[task_type] THEN fails(Raise("KeyError"))
       ELSE \E est_ok \in BOOLEAN :
            IF ~est_ok THEN fails(Raise("EstimatorError"))
            ELSE IF f = 0
            THEN \* fitted_model is None: the status is set, then None['model'] = algo raises
                 /\ Served(req("no call"))
                 /\ models' = MarkFitted(models, i)
                 /\ result' = Raise("TypeError")
                 /\ UNCHANGED <<fitted_models, storage>>
            ELSE \E put \in PutOutcomes :
                 /\ Served(req(put))
                 /\ models' = MarkFitted(models, i)
                 /\ fitted_models' = StoreEstimator(fitted_models, f, algo)
                 /\ storage' = AfterPut(storage, EstimatorKey(model_id), Pickle(algo), put)
                 /\ result' = PutResult(put, MarkFitted(models, i)[i])
    /\ UNCHANGED <<counter, task_type, available_models, created>>

-----------------------------------------------------------------------------
(* Models.predict and Models.predict_proba *)

\* predict trusts the record's status and not the artifact
PredictResponseByStatus(ms, fs, model_id) ==
    LET i == FindIndex(ms, model_id)
        f == FindIndex(fs, model_id) IN
    IF i = 0 THEN GetModel(ms, model_id)
    ELSE IF f = 0 THEN Raise("TypeError")
    ELSE IF ms[i]["model"] # "Fitted" THEN Raise("AttributeError")
    ELSE Return([predict |-> fs[f]["model"]])

\* the response of predict(model_id, X)
PredictResponse(ms, fs, model_id) ==
    LET f == FindIndex(fs, model_id) IN
    IF FindIndex(ms, model_id) = 0 THEN GetModel(ms, model_id)
    ELSE IF f = 0 THEN Raise("TypeError")                  \* None['model']
    ELSE IF fs[f]["model"] = NotFitted THEN Raise("AttributeError")  \* str has no predict
    ELSE Return([predict |-> fs[f]["model"]])

\* the response of predict_proba(model_id, X)
PredictProbaResponse(fs, task, model_id) ==
    LET f == FindIndex(fs, model_id) IN
    IF f = 0 THEN Raise("TypeError")                       \* None['model']
    ELSE IF task \notin {"multiclass", "binary"}
    THEN Raise("UnboundLocalError")                        \* model_scores was never bound
    ELSE IF ~HasPredictProba(fs[f]["model"])
    THEN Abort("has no method predict_proba")              \* AttributeError caught
    ELSE Return([predict_proba |-> fs[f]["model"], task |-> task])

Predict(model_id) ==
    /\ Served([op |-> "predict", model_id |-> model_id])
    /\ result' = PredictResponse(models, fitted_models, model_id)
    /\ UNCHANGED <<registry, created>>

PredictProba(model_id) ==
    /\ Served([op |-> "predict_proba", model_id |-> model_id])
    /\ result' = PredictProbaResponse(fitted_models, task_type, model_id)
    /\ UNCHANGED <<registry, created>>

-----------------------------------------------------------------------------
(* round_dict_values and Models.get_scores *)

\* metric values are held in units of 10^-(Decimals+1); the raw values a metric returns
RawScores == {12344, 12346}

\* float(f"{value:.{k}f}") for k = Decimals: the value in units of 10^-Decimals
RoundValue(v) == (v + 5) \div 10

RoundDictValues(d) == [key \in DOMAIN d |-> RoundValue(d[key])]

\* the metric is taken from the record's own task_type
SetScoresByRecordTask(ms, i, task, raw) ==
    [ms EXCEPT ![i] =
        DictSet(ms[i], "scores",
                [key \in {METRICS_DICT[ms[i]["task_type"]]} |-> (raw + 5) \div 10])]

\* model_dict['scores'] = {metric.__name__: metrics}, then rounded
SetScores(ms, i, task, raw) ==
    [ms EXCEPT ![i] =
        DictSet(ms[i], "scores", RoundDictValues(DictSet(EmptyDict, METRICS_DICT[task], raw)))]

\* predict_proba is called whatever the task type
ScorePredictionsAlwaysProba(ms, fs, task, model_id) ==
    PredictProbaResponse(fs, task, model_id)

\* y_predicted: predict_proba unless the task is regression, predict otherwise
ScorePredictions(ms, fs, task, model_id) ==
    IF task # "regression"
    THEN PredictProbaResponse(fs, task, model_id)
    ELSE PredictResponse(ms, fs, model_id)

\* METRICS_DICT[task](y, y_predicted) is library code: it returns a value (raw)
\* or raises.
GetScores(model_id, data) ==
    LET i == FindIndex(models, model_id)
        y_predicted == ScorePredictions(models, fitted_models, task_type, model_id)
        fails(r) == /\ result' = r
                    /\ UNCHANGED models
    IN
    /\ Served([op |-> "get_scores", model_id |-> model_id, data |-> data])
    /\ IF data = "none" THEN fails(Abort("For compute metric you shoukd add data"))
       ELSE IF i = 0 THEN fails(GetModel(models, model_id))
       ELSE IF ~HasTarget(data) THEN fails(Raise("KeyError"))
       ELSE IF y_predicted.kind # "return" THEN fails(y_predicted)
       ELSE \/ fails(Raise("ValueError"))
            \/ \E raw \in RawScores :
                 /\ models' = SetScores(models, i, task_type, raw)
                 /\ result' = Return(SetScores(models, i, task_type, raw)[i])
    /\ UNCHANGED <<fitted_models, counter, task_type, available_models, storage, created>>

-----------------------------------------------------------------------------

Next ==
    \/ \E t \in Targets : GetAvailableModel(t)
    \/ GetAvailableModelNoTarget
    \/ \E n \in CreateNames : CreateModel(n)
    \/ \E id \in ModelIds : GetModelOp(id)
    \/ \E id \in ModelIds : GetFittedModelOp(id)
    \/ \E p \in Patches : UpdateModel(p)
    \/ UpdateModelNotADict
    \/ \E id \in ModelIds : DeleteModel(id)
    \/ \E id \in ModelIds, d \in Datasets : Fit(id, d)
    \/ \E id \in ModelIds : Predict(id)
    \/ \E id \in ModelIds : PredictProba(id)
    \/ \E id \in ModelIds, d \in Datasets : GetScores(id, d)

Spec == Init /\ [][Next]_vars

-----------------------------------------------------------------------------
(* Models.create_model called from two server threads: the statements of one *)
(* call are atomic, and the statements of the two calls interleave freely.   *)
(* pc names the line of model_api.py a thread executes next.                 *)

ConcNames == {"regression", "Ridge"}

\* the counter is left as it is
IncrementMissing(c) == c

\* self.counter += 1
Increment(c) == c + 1

Goto(t, label) == pc' = [pc EXCEPT ![t] = label]

\* the request arrives: create_model(model_name) is entered
CStart(t, model_name) ==
    /\ pc[t] = "idle"
    /\ nops < MaxCalls
    /\ nops' = nops + 1
    /\ Goto(t, "L98")
    /\ frame' = [frame EXCEPT ![t] = [IdleFrame EXCEPT !.model_name = model_name]]
    /\ race' = [race EXCEPT !.overlap = @ \/ (\E u \in Threads \ {t} : pc[u] # "idle")]
    /\ UNCHANGED <<registry, lastOp, result, created>>

\* line 98: self.counter += 1
CIncrement(t) ==
    /\ pc[t] = "L98"
    /\ counter' = Increment(counter)
    /\ Goto(t, "L99")
    /\ UNCHANGED <<models, fitted_models, task_type, available_models, storage,
                   lastOp, result, created, nops, frame, race>>

\* lines 99-105: ml_dic = {'model_id': self.counter, ..., 'task_type': self.task_type, ...}
CMakeRecord(t) ==
    /\ pc[t] = "L99"
    /\ frame' = [frame EXCEPT ![t].ml_dic = NewRecord(counter, "None", task_type)]
    /\ Goto(t, "L106")
    /\ UNCHANGED <<registry, lastOp, result, created, nops, race>>

\* lines 106-109: fitted = {'model_id': self.counter, 'model': 'Not fitted'}
CMakeFitted(t) ==
    /\ pc[t] = "L106"
    /\ frame' = [frame EXCEPT ![t].fitted = NewFitted(counter)]
    /\ Goto(t, "L111")
    /\ UNCHANGED <<registry, lastOp, result, created, nops, race>>

\* lines 111-112: the name check; ml_dic['model_name'] = model_name
CCheckName(t) ==
    /\ pc[t] = "L111"
    /\ IF NameAccepted(frame[t].model_name)
       THEN /\ frame' = [frame EXCEPT ![t].ml_dic =
                            DictSet(@, "model_name", frame[t].model_name)]
            /\ Goto(t, "L118")
       ELSE /\ Goto(t, "L114")
            /\ UNCHANGED frame
    /\ UNCHANGED <<registry, lastOp, result, created, nops, race>>

\* lines 114-116: self.counter -= 1; abort(...)
CRollBack(t) ==
    /\ pc[t] = "L114"
    /\ counter' = RollBack(counter)
    /\ frame' = [frame EXCEPT ![t].response = Abort("Wrong model name")]
    /\ race' = [race EXCEPT !.rolled = @ \cup {t}]
    /\ Goto(t, "idle")
    /\ UNCHANGED <<models, fitted_models, task_type, available_models, storage,
                   lastOp, result, created, nops>>

\* line 118: self.models.append(ml_dic)
CAppendModel(t) ==
    /\ pc[t] = "L118"
    /\ models' = Append(models, frame[t].ml_dic)
    /\ created' = Append(created, frame[t].ml_dic["model_id"])
    /\ race' = [race EXCEPT !.by = Append(@, t)]
    /\ Goto(t, "L119")
    /\ UNCHANGED <<fitted_models, counter, task_type, available_models, storage,
                   lastOp, result, nops, frame>>

\* line 119: self.fitted_models.append(fitted)
CAppendFitted(t) ==
    /\ pc[t] = "L119"
    /\ fitted_models' = Append(fitted_models, frame[t].fitted)
    /\ Goto(t, "L122")
    /\ UNCHANGED <<models, counter, task_type, available_models, storage,
                   lastOp, result, created, nops, frame, race>>

\* lines 121-124: put_object(pickle.dumps(ml_dic), ...); return ml_dic
CPutAndReturn(t) ==
    /\ pc[t] = "L122"
    /\ \E put \in PutOutcomes :
          /\ storage' = AfterPut(storage, RecordKey, Pickle(frame[t].ml_dic), put)
          /\ frame' = [frame EXCEPT ![t].response = PutResult(put, frame[t].ml_dic)]
    /\ Goto(t, "idle")
    /\ UNCHANGED <<models, fitted_models, counter, task_type, available_models,
                   lastOp, result, created, nops, race>>

NextConc ==
    \/ \E t \in Threads, n \in ConcNames : CStart(t, n)
    \/ \E t \in Threads : CIncrement(t)
    \/ \E t \in Threads : CMakeRecord(t)
    \/ \E t \in Threads : CMakeFitted(t)
    \/ \E t \in Threads : CCheckName(t)
    \/ \E t \in Threads : CRollBack(t)
    \/ \E t \in Threads : CAppendModel(t)
    \/ \E t \in Threads : CAppendFitted(t)
    \/ \E t \in Threads : CPutAndReturn(t)

SpecConc == Init /\ [][NextConc]_vars

-----------------------------------------------------------------------------
(* Vocabulary of the properties *)

IsOp(op, name) == op.op = name

\* the entry of the list ms with the given id (there is one)
EntryOf(ms, id) == ms[CHOOSE i \in 1..Len(ms) : ms[i]["model_id"] = id]

\* every other id keeps its record and its artifact over the step
OthersUnchanged(id) ==
    \A j \in ModelIds \ {id} :
        /\ (j \in Ids(models')) = (j \in Ids(models))
        /\ (j \in Ids(fitted_models')) = (j \in Ids(fitted_models))
        /\ j \in Ids(models) => EntryOf(models', j) = EntryOf(models, j)
        /\ j \in Ids(fitted_models) => EntryOf(fitted_models', j) = EntryOf(fitted_models, j)

\* a create_model call that passed the name check and registered its record
\* (its put_object may have failed, and raised, after that)
CreateAccepted(op, res) == IsOp(op, "create_model") /\ res.kind # "abort"

CreateReturned(op, res) == IsOp(op, "create_model") /\ res.kind = "return"

-----------------------------------------------------------------------------
(* C1: the k-th create_model call that registers a record gives it           *)
(* model_id = k: the ids handed out are 1, 2, 3, ... in creation order, the  *)
(* record a call returns carries the id of its rank, every live id was       *)
(* handed out exactly once, and deletions and rejected calls do not change   *)
(* this.                                                                     *)

C1_KthCreateGetsIdK ==
    /\ \A k \in 1..Len(created) : created[k] = k
    /\ CreateReturned(lastOp, result) => result.value["model_id"] = Len(created)
    /\ CreateAccepted(lastOp, result) =>
          /\ Len(models) >= 1
          /\ models[Len(models)]["model_id"] = Len(created)
    /\ Ids(models) \subseteq Range(created)

\* the second record is created after the first was deleted, and gets id 2
C1_Witness ==
    /\ CreateReturned(lastOp, result)
    /\ Len(created) = 2
    /\ Ids(models) = {2}
    /\ result.value["model_id"] = 2

-----------------------------------------------------------------------------
(* C2: in every reachable state the ids of the records and the ids of the    *)
(* artifacts are the same set and no id occurs twice in either list; only    *)
(* create_model adds an id (to both lists) and only delete_model removes one *)
(* (from both lists).                                                        *)

C2_SameIds ==
    /\ Ids(models) = Ids(fitted_models)
    /\ Cardinality(Ids(models)) = Len(models)
    /\ Cardinality(Ids(fitted_models)) = Len(fitted_models)

C2_StepKeepsPairs ==
    /\ Ids(models') # Ids(models) =>
          \/ /\ CreateAccepted(lastOp', result')
             /\ Ids(models') = Ids(models) \cup {counter'}
             /\ Ids(fitted_models') = Ids(fitted_models) \cup {counter'}
             /\ counter' \notin Ids(models)
          \/ /\ IsOp(lastOp', "delete_model")
             /\ Ids(models') = Ids(models) \ {lastOp'.model_id}
             /\ Ids(fitted_models') = Ids(fitted_models) \ {lastOp'.model_id}
    /\ Ids(fitted_models') # Ids(fitted_models) => Ids(models') # Ids(models)
    /\ Len(models') # Len(models) => Ids(models') # Ids(models)
    /\ Len(fitted_models') # Len(fitted_models) => Ids(models') # Ids(models)

C2_RecordsAndArtifactsPaired == [](C2_SameIds) /\ [][C2_StepKeepsPairs]_vars

\* two records and two artifacts, then one pair deleted
C2_Witness ==
    /\ IsOp(lastOp, "delete_model")
    /\ result.kind = "return"
    /\ Len(created) = 2
    /\ Ids(models) = {2}
    /\ Ids(fitted_models) = {2}

-----------------------------------------------------------------------------
(* C3: a create_model call rejected for its name aborts with the "Wrong      *)
(* model name" response and leaves counter, records, artifacts and storage   *)
(* (and task type and candidate table) as they were; the counter always      *)
(* equals the number of records created so far, so the next accepted call    *)
(* gets the id it would have got without the rejected call.                  *)

C3_RejectedStep ==
    (IsOp(lastOp', "create_model") /\
        (result'.kind = "abort" \/ lastOp'.model_name \notin TaskTypes)) =>
        /\ result' = Abort("Wrong model name")
        /\ counter' = counter
        /\ models' = models
        /\ fitted_models' = fitted_models
        /\ storage' = storage
        /\ task_type' = task_type
        /\ available_models' = available_models
        /\ created' = created

C3_RejectedCreateChangesNothing ==
    [](counter = Len(created)) /\ [][C3_RejectedStep]_vars

\* a call is rejected after one record was created: the counter is still 1
C3_Witness ==
    /\ IsOp(lastOp, "create_model")
    /\ result.kind = "abort"
    /\ counter = 1
    /\ Len(models) = 1

-----------------------------------------------------------------------------
(* C4: the end-to-end scenario.  From a fresh registry: get_available_model  *)
(* on a sample with target > 10, create_model("Ridge"), fit(1, dataset),     *)
(* predict(1), get_scores(1, dataset), the library calls and the storage     *)
(* writes succeeding.  create_model returns the record named Ridge with id   *)
(* 1, fit leaves its status Fitted, and get_scores leaves a                  *)
(* mean_squared_error entry in its scores.  nops numbers the steps of the    *)
(* scenario; a stage is recognised by its request and by what the stages    *)
(* before it left behind.                                                    *)

C4_RidgeCreated ==
    /\ counter = 1
    /\ Len(models) = 1
    /\ models[1]["model_id"] = 1
    /\ models[1]["model_name"] = "Ridge"
    /\ models[1]["task_type"] = "regression"

C4_LibraryFailed == result.kind = "raise" /\ result.msg \in {"EstimatorError", "StorageError", "ValueError"}

C4_Scenario ==
    /\ (/\ nops = 2
        /\ task_type = "regression"
        /\ "regression" \in DOMAIN available_models
        /\ IsOp(lastOp, "create_model")
        /\ lastOp.model_name = "Ridge")
       => (/\ result.kind # "abort"
           /\ C4_RidgeCreated
           /\ result.kind = "return" => result.value = models[1])
    /\ (/\ nops = 3
        /\ task_type = "regression"
        /\ C4_RidgeCreated
        /\ IsOp(lastOp, "fit")
        /\ lastOp.model_id = 1
        /\ lastOp.data = "labeled"
        /\ ~C4_LibraryFailed)
       => (/\ result.kind = "return"
           /\ models[1]["model"] = Fitted)
    /\ (/\ nops = 5
        /\ task_type = "regression"
        /\ C4_RidgeCreated
        /\ models[1]["model"] = Fitted
        /\ IsOp(lastOp, "get_scores")
        /\ lastOp.model_id = 1
        /\ lastOp.data = "labeled"
        /\ ~C4_LibraryFailed)
       => (/\ result.kind = "return"
           /\ "mean_squared_error" \in DOMAIN models[1]["scores"])

-----------------------------------------------------------------------------
(* C5: create_model accepts a name exactly when it is the name of a class in *)
(* the candidate list of the current task type, so every record it registers *)
(* has a model_name from the candidate list of its task_type.                *)

C5_NameIsCandidateClass ==
    IsOp(lastOp, "create_model") =>
        /\ (result.kind # "abort") = (lastOp.model_name \in CandidateNames(task_type))
        /\ result.kind # "abort" =>
              models[Len(models)]["model_name"]
                  \in CandidateNames(models[Len(models)]["task_type"])

-----------------------------------------------------------------------------
(* C6: when fit(id, data) returns, the record id has status Fitted, the      *)
(* artifact id holds the estimator built from the record's model_name (not   *)
(* the "Not fitted" sentinel), and the record and the artifact of every      *)
(* other id are as before the call.                                          *)

C6_FitStep ==
    (IsOp(lastOp', "fit") /\ result'.kind = "return") =>
        LET id == lastOp'.model_id IN
        /\ id \in Ids(models) /\ id \in Ids(models')
        /\ id \in Ids(fitted_models')
        /\ EntryOf(models', id)["model"] = "Fitted"
        /\ EntryOf(fitted_models', id)["model"] # "Not fitted"
        /\ EntryOf(fitted_models', id)["model"]
              = Construct(EntryOf(models, id)["model_name"], task_type)
        /\ result'.value = EntryOf(models', id)
        /\ OthersUnchanged(id)

C6_FitMarksOnlyItsModel == [][C6_FitStep]_vars

\* the second of two records is fitted
C6_Witness ==
    /\ IsOp(lastOp, "fit")
    /\ result.kind = "return"
    /\ lastOp.model_id = 2
    /\ Len(models) = 2
    /\ models[2]["model"] = "Fitted"
    /\ models[1]["model"] = "Not fitted"
    /\ fitted_models[2]["model"] # "Not fitted"

-----------------------------------------------------------------------------
(* C7: delete_model(id) on an existing id takes the id out of both lists and *)
(* leaves every other record and artifact alone; on an absent id it aborts   *)
(* and changes nothing; an id that was handed out and is gone stays gone     *)
(* over every later step, and get_model on it aborts with "does not exist".  *)

\* ids that were handed out and are in the record list no more
C7_Gone(ms) == Range(created) \ Ids(ms)

C7_DeleteStep ==
    IsOp(lastOp', "delete_model") =>
        LET id == lastOp'.model_id IN
        IF id \in Ids(models)
        THEN /\ result'.kind = "return"
             /\ id \notin Ids(models')
             /\ id \notin Ids(fitted_models')
             /\ Len(models') = Len(models) - 1
             /\ Len(fitted_models') = Len(fitted_models) - 1
             /\ OthersUnchanged(id)
             /\ UNCHANGED <<counter, task_type, available_models, storage>>
        ELSE /\ result' = Abort("does not exist")
             /\ UNCHANGED registry

C7_StaysGone ==
    \A id \in C7_Gone(models) :
        /\ id \notin Ids(models')
        /\ id \notin Ids(fitted_models')
        /\ (IsOp(lastOp', "get_model") /\ lastOp'.model_id = id)
              => result' = Abort("does not exist")

C7_DeletedIdNeverReturns == [][C7_DeleteStep /\ C7_StaysGone]_vars

\* record 1 was deleted, another record was created since, and get_model(1) aborts
C7_Witness ==
    /\ IsOp(lastOp, "get_model")
    /\ lastOp.model_id = 1
    /\ result = Abort("does not exist")
    /\ Len(created) = 2
    /\ Ids(models) = {2}

-----------------------------------------------------------------------------
(* C8: after get_available_model on a sample with integer target t the       *)
(* process-wide task_type is binary if t = 2, regression if t > 10, and      *)
(* multiclass for every other t.                                             *)

C8_TaskTypeOfTarget ==
    (IsOp(lastOp, "get_available_model") /\ result.kind = "return") =>
        LET t == lastOp.target IN
        /\ t = 2 => task_type = "binary"
        /\ t > 10 => task_type = "regression"
        /\ (t # 2 /\ t <= 10) => task_type = "multiclass"
        /\ t < 0 => task_type = "multiclass"
        /\ t \in 3..10 => task_type = "multiclass"
        /\ result.value.task = task_type

\* the target equal to the cutoff is still multiclass
C8_Witness ==
    /\ IsOp(lastOp, "get_available_model")
    /\ result.kind = "return"
    /\ lastOp.target = 10
    /\ task_type = "multiclass"

-----------------------------------------------------------------------------
(* C9: get_model(id) returns the record with that id, and aborts with "does  *)
(* not exist" when there is none; get_fitted_model(id) returns the artifact  *)
(* with that id, and returns None without any error when there is none;      *)
(* neither changes the registry.                                             *)

C9_Responses ==
    /\ IsOp(lastOp, "get_model") =>
          IF lastOp.model_id \in Ids(models)
          THEN /\ result.kind = "return"
               /\ \E i \in 1..Len(models) : result.value = models[i]
               /\ result.value["model_id"] = lastOp.model_id
          ELSE /\ result.kind = "abort"
               /\ result.msg = "does not exist"
    /\ IsOp(lastOp, "get_fitted_model") =>
          /\ result.kind = "return"
          /\ IF lastOp.model_id \in Ids(fitted_models)
             THEN /\ \E i \in 1..Len(fitted_models) : result.value = fitted_models[i]
                  /\ result.value["model_id"] = lastOp.model_id
             ELSE result.value = NoneValue

C9_LookupStep ==
    (IsOp(lastOp', "get_model") \/ IsOp(lastOp', "get_fitted_model")) =>
        UNCHANGED <<registry, created>>

C9_LookupsFailDifferently == [](C9_Responses) /\ [][C9_LookupStep]_vars

\* the artifact of a deleted model is looked up: None comes back
C9_Witness ==
    /\ IsOp(lastOp, "get_fitted_model")
    /\ lastOp.model_id = 1
    /\ result = Return(NoneValue)
    /\ Len(created) >= 1
    /\ 1 \notin Ids(fitted_models)

-----------------------------------------------------------------------------
(* C10: update_model with a dict whose model_id names a record writes the    *)
(* keys of the dict over that record (keys not in the dict keep their        *)
(* values, and no other key appears) and leaves every other record, the      *)
(* artifacts, the counter, the task type, the candidate table and storage    *)
(* alone; a dict without model_id, a value that is no dict, or an absent id  *)
(* aborts and leaves everything alone.                                       *)

C10_UpdateStep ==
    IsOp(lastOp', "update_model") =>
        LET patch == lastOp'.patch IN
        IF /\ lastOp'.is_dict
           /\ "model_id" \in DOMAIN patch
           /\ patch["model_id"] \in Ids(models)
        THEN LET id  == patch["model_id"]
                 old == EntryOf(models, id)
                 new == EntryOf(models', id)
             IN
             /\ result'.kind = "return"
             /\ DOMAIN new = (DOMAIN old) \cup (DOMAIN patch)
             /\ \A k \in DOMAIN patch : new[k] = patch[k]
             /\ \A k \in (DOMAIN old) \ (DOMAIN patch) : new[k] = old[k]
             /\ Len(models') = Len(models)
             /\ \A i \in 1..Len(models) :
                    models[i]["model_id"] # id => models'[i] = models[i]
             /\ UNCHANGED <<fitted_models, counter, task_type, available_models, storage>>
        ELSE /\ result'.kind = "abort"
             /\ ~lastOp'.is_dict => result'.msg = "Dictionary should be passed."
             /\ (lastOp'.is_dict /\ "model_id" \notin DOMAIN patch)
                   => result'.msg = "Incorrect dictionary passed."
             /\ (lastOp'.is_dict /\ "model_id" \in DOMAIN patch)
                   => result'.msg = "does not exist"
             /\ UNCHANGED registry

C10_UpdateMergesIntoOneRecord == [][C10_UpdateStep]_vars

\* a new key is merged into the first of two records
C10_Witness ==
    /\ IsOp(lastOp, "update_model")
    /\ result.kind = "return"
    /\ Len(models) = 2
    /\ lastOp.patch["model_id"] = 1
    /\ "note" \in DOMAIN lastOp.patch
    /\ "note" \in DOMAIN models[1]
    /\ "note" \notin DOMAIN models[2]

-----------------------------------------------------------------------------
(* C11: predict_proba on an existing, fitted model while the process-wide    *)
(* task type is regression ends in the abort with the "has no method         *)
(* predict_proba" message: it does not return and does not fail otherwise.   *)

C11_RegressionProbaAborts ==
    (/\ IsOp(lastOp, "predict_proba")
     /\ task_type = "regression"
     /\ lastOp.model_id \in Ids(fitted_models)
     /\ EntryOf(fitted_models, lastOp.model_id)["model"] # "Not fitted")
    => (/\ result.kind = "abort"
        /\ result.msg = "has no method predict_proba")

-----------------------------------------------------------------------------
(* C12: a get_scores call that returns leaves in the record's scores exactly *)
(* one key, the name of the metric of the current task type, and changes no  *)
(* other key of the record, no other record, and nothing else; it uses       *)
(* predict under regression and predict_proba otherwise, so it ends as that  *)
(* call ends when that call fails; with data None it aborts with nothing     *)
(* changed.                                                                  *)

C12_MetricName(task) ==
    CASE task = "regression" -> "mean_squared_error"
      [] task = "binary"     -> "roc_auc_score"
      [] task = "multiclass" -> "f1_score"

C12_ScoresStep ==
    IsOp(lastOp', "get_scores") =>
        LET id == lastOp'.model_id IN
        /\ UNCHANGED <<fitted_models, counter, task_type, available_models, storage>>
        /\ result'.kind # "return" => models' = models
        /\ lastOp'.data = "none" =>
              result' = Abort("For compute metric you shoukd add data")
        /\ result'.kind = "return" =>
              /\ id \in Ids(models)
              /\ lastOp'.data = "labeled"
              /\ DOMAIN EntryOf(models', id)["scores"] = {C12_MetricName(task_type)}
              /\ \A k \in DOMAIN EntryOf(models, id) \ {"scores"} :
                    EntryOf(models', id)[k] = EntryOf(models, id)[k]
              /\ DOMAIN EntryOf(models', id) = DOMAIN EntryOf(models, id)
              /\ result'.value = EntryOf(models', id)
              /\ OthersUnchanged(id)
              /\ EntryOf(fitted_models, id)["model"] # "Not fitted"
        /\ (lastOp'.data = "labeled" /\ id \in Ids(models)) =>
              LET est == EntryOf(fitted_models, id)["model"] IN
              IF task_type = "regression"
              THEN IF est = "Not fitted"
                   THEN result' = Raise("AttributeError")
                   ELSE result'.kind = "return" \/ result' = Raise("ValueError")
              ELSE IF HasPredictProba(est)
                   THEN result'.kind = "return" \/ result' = Raise("ValueError")
                   ELSE result' = Abort("has no method predict_proba")

C12_ScoresHoldOneMetric == [][C12_ScoresStep]_vars

\* a fitted Ridge is scored under regression
C12_Witness ==
    /\ IsOp(lastOp, "get_scores")
    /\ result.kind = "return"
    /\ task_type = "regression"
    /\ DOMAIN models[1]["scores"] = {"mean_squared_error"}
    /\ models[1]["model"] = "Fitted"

-----------------------------------------------------------------------------
(* C13: task_type is "multiclass" after construction; a get_available_model  *)
(* call that returns sets it to the type inferred from its sample, and no    *)
(* other call changes it, so it always is the type of the most recent such   *)
(* call; a record's task_type field is the process-wide value at the moment  *)
(* create_model registered it.                                               *)

C13_Inferred(t) ==
    CASE t = 2            -> "binary"
      [] t # 2 /\ t > 10  -> "regression"
      [] OTHER            -> "multiclass"

C13_Step ==
    /\ IF IsOp(lastOp', "get_available_model") /\ result'.kind = "return"
       THEN task_type' = C13_Inferred(lastOp'.target)
       ELSE task_type' = task_type
    /\ CreateAccepted(lastOp', result') =>
          /\ models'[Len(models')]["task_type"] = task_type
          /\ result'.kind = "return" => result'.value["task_type"] = task_type

C13_TaskTypeIsProcessWide == (task_type = "multiclass") /\ [][C13_Step]_vars

\* a record created under regression keeps that type after the process moved to binary
C13_Witness ==
    /\ Len(models) >= 1
    /\ models[1]["task_type"] = "regression"
    /\ task_type = "binary"
    /\ IsOp(lastOp, "get_available_model")

-----------------------------------------------------------------------------
(* C14: the object under the model-level key KEY_MODEL is the pickled        *)
(* estimator of the most recent fit whose write reached the bucket,          *)
(* whatever the model id; every such fit overwrites it, and nothing else     *)
(* (create_model, delete_model, update_model, get_scores, the predictions,   *)
(* a fit that fails or whose write fails) changes it; delete_model leaves    *)
(* the whole bucket as it is.                                                *)

C14_Estimators == {Construct(c, t) : c \in AllClassNames, t \in TaskTypes}

C14_HoldsEstimator ==
    KEY_MODEL \in DOMAIN storage =>
        \E e \in C14_Estimators : storage[KEY_MODEL] = Pickle(e)

C14_Step ==
    /\ IF IsOp(lastOp', "fit") /\ lastOp'.put = "stored"
       THEN /\ KEY_MODEL \in DOMAIN storage'
            /\ storage'[KEY_MODEL]
                  = Pickle(EntryOf(fitted_models', lastOp'.model_id)["model"])
            /\ result'.kind = "return"
       ELSE /\ (KEY_MODEL \in DOMAIN storage') = (KEY_MODEL \in DOMAIN storage)
            /\ KEY_MODEL \in DOMAIN storage => storage'[KEY_MODEL] = storage[KEY_MODEL]
    /\ (IsOp(lastOp', "fit") /\ result'.kind = "return" /\ lastOp'.put # "lost")
          => lastOp'.put = "stored"
    /\ IsOp(lastOp', "delete_model") => storage' = storage

C14_OneKeyForEveryFit == [](C14_HoldsEstimator) /\ [][C14_Step]_vars

\* the estimator fitted for model 2 lies under the one key
C14_Witness ==
    /\ IsOp(lastOp, "fit")
    /\ lastOp.model_id = 2
    /\ lastOp.put = "stored"
    /\ DOMAIN storage = {KEY_MODEL, RecordKey}
    /\ storage[KEY_MODEL] = Pickle(fitted_models[2]["model"])
    /\ fitted_models[1]["model"] = "Not fitted"

-----------------------------------------------------------------------------
(* C15: with create_model calls of two threads interleaving statement by     *)
(* statement, a call rejected for its name and rolling the counter back can  *)
(* make two live records, and two artifacts, carry the same model_id         *)
(* (C15_Witness: both records were registered by thread A, one call after    *)
(* the other, while a call of thread B was rejected).  Nothing but the       *)
(* interleaving does it: as long as no call was started while another was in *)
(* flight, no two records and no two artifacts share an id and each record   *)
(* has the id of its artifact.                                               *)

C15_SharedId(ms) ==
    \E i, j \in 1..Len(ms) : i < j /\ ms[i]["model_id"] = ms[j]["model_id"]

C15_DuplicateNeedsOverlap ==
    ~race.overlap =>
        /\ ~C15_SharedId(models)
        /\ ~C15_SharedId(fitted_models)
        /\ \A i \in 1..Len(fitted_models) :
              fitted_models[i]["model_id"] = models[i]["model_id"]
        /\ \A k \in 1..Len(created) : created[k] = k

C15_Witness ==
    /\ \A t \in Threads : pc[t] = "idle"
    /\ race.by = <<"A", "A">>
    /\ race.rolled = {"B"}
    /\ Len(models) = 2
    /\ Len(fitted_models) = 2
    /\ models[1]["model_id"] = models[2]["model_id"]
    /\ fitted_models[1]["model_id"] = fitted_models[2]["model_id"]

-----------------------------------------------------------------------------
(* C16: requests of different clients are served one after the other on the  *)
(* same task_type.  A record is created with the type of the most recent     *)
(* get_available_model call, whoever made it; fit looks the record's name up *)
(* in the candidates of the process-wide type and builds the estimator with  *)
(* that type's parameters, and get_scores keys the score by that type's      *)
(* metric, also when the record's own task_type field says otherwise.        *)

C16_Step ==
    /\ CreateAccepted(lastOp', result') =>
          models'[Len(models')]["task_type"] = task_type'
    /\ (IsOp(lastOp', "fit") /\ result'.kind = "return") =>
          LET old == EntryOf(models, lastOp'.model_id) IN
          /\ task_type \in DOMAIN available_models
          /\ old["model_name"] \in CandidateNames(task_type)
          /\ EntryOf(fitted_models', lastOp'.model_id)["model"]
                = Construct(old["model_name"], task_type)
    /\ (IsOp(lastOp', "fit") /\ lastOp'.data = "labeled"
            /\ lastOp'.model_id \in Ids(models)
            /\ EntryOf(models, lastOp'.model_id)["model_name"] \notin CandidateNames(task_type))
          => result' = Raise("KeyError")
    /\ (IsOp(lastOp', "get_scores") /\ result'.kind = "return") =>
          DOMAIN EntryOf(models', lastOp'.model_id)["scores"] = {METRICS_DICT[task_type]}

C16_RequestsShareTaskType == [][C16_Step]_vars

\* A: get_available_model(regression sample); B: get_available_model(binary sample);
\* A: create_model -- the record says binary
C16_Witness ==
    /\ nops = 3
    /\ CreateReturned(lastOp, result)
    /\ DOMAIN available_models = {"regression", "binary"}
    /\ task_type = "binary"
    /\ models[1]["task_type"] = "binary"

\* a record that says multiclass is fitted and scored as binary
C16_ScoredAsBinary ==
    /\ IsOp(lastOp, "get_scores")
    /\ result.kind = "return"
    /\ models[1]["task_type"] = "multiclass"
    /\ task_type = "binary"
    /\ DOMAIN models[1]["scores"] = {"roc_auc_score"}

-----------------------------------------------------------------------------
(* C17: create_model and fit change the registry in memory before they call  *)
(* put_object and look at its outcome in no way: whether the write is        *)
(* stored or fails, the counter, the record list, the artifact list, the     *)
(* status and the artifact slot after the call are the same; a failed write  *)
(* leaves the bucket as it was (it is not repeated).                         *)

C17_Step ==
    /\ CreateAccepted(lastOp', result') =>
          /\ lastOp'.put \in PutOutcomes
          /\ counter' = counter + 1
          /\ Len(models') = Len(models) + 1
          /\ Len(fitted_models') = Len(fitted_models) + 1
          /\ \A i \in 1..Len(models) :
                models'[i] = models[i] /\ fitted_models'[i] = fitted_models[i]
          /\ models'[Len(models')]["model_id"] = counter + 1
          /\ models'[Len(models')]["model_name"] = lastOp'.model_name
          /\ models'[Len(models')]["model"] = "Not fitted"
          /\ fitted_models'[Len(fitted_models')]
                = [model_id |-> counter + 1, model |-> "Not fitted"]
          /\ IF lastOp'.put = "stored"
             THEN storage'[RecordKey] = Pickle(models'[Len(models')])
             ELSE storage' = storage
    /\ (IsOp(lastOp', "fit") /\ lastOp'.put \in PutOutcomes) =>
          LET id == lastOp'.model_id IN
          /\ EntryOf(models', id)["model"] = "Fitted"
          /\ EntryOf(fitted_models', id)["model"]
                = Construct(EntryOf(models, id)["model_name"], task_type)
          /\ OthersUnchanged(id)
          /\ counter' = counter
          /\ IF lastOp'.put = "stored"
             THEN storage'[KEY_MODEL] = Pickle(EntryOf(fitted_models', id)["model"])
             ELSE storage' = storage

C17_WriteOutcomeIsIgnored == [][C17_Step]_vars

\* the write of create_model failed: the record is there, the id is used, the bucket empty
C17_Witness ==
    /\ IsOp(lastOp, "create_model")
    /\ lastOp.put = "lost"
    /\ result.kind = "return"
    /\ counter = 1
    /\ Ids(models) = {1}
    /\ Ids(fitted_models) = {1}
    /\ storage = EmptyDict

-----------------------------------------------------------------------------
(* C18: for every model id in the registry, the record's status is "Fitted"  *)
(* if and only if the artifact with that id holds a trained estimator.       *)
(* C18_StatusMatchesArtifact states this of every reachable state.           *)
(* C18_StatusFollowsArtifact states what holds: the registry starts with it, *)
(* and every call keeps it except an update_model whose dict carries the key *)
(* 'model'.                                                                  *)

C18_Matches(ms, fs) ==
    \A i \in 1..Len(ms) :
        (ms[i]["model"] = "Fitted")
            = (\E j \in 1..Len(fs) : /\ fs[j]["model_id"] = ms[i]["model_id"]
                                     /\ fs[j]["model"] # "Not fitted")

C18_StatusMatchesArtifact == C18_Matches(models, fitted_models)

C18_PatchesStatus(op) ==
    /\ IsOp(op, "update_model")
    /\ op.is_dict
    /\ "model" \in DOMAIN op.patch

C18_Step ==
    (C18_Matches(models, fitted_models) /\ ~C18_PatchesStatus(lastOp'))
        => C18_Matches(models', fitted_models')

C18_StatusFollowsArtifact ==
    C18_Matches(models, fitted_models) /\ [][C18_Step]_vars

\* a fit whose write raised: status and artifact were both written before
C18_Witness ==
    /\ IsOp(lastOp, "fit")
    /\ lastOp.put = "raised"
    /\ result.kind = "raise"
    /\ models[1]["model"] = "Fitted"
    /\ fitted_models[1]["model"] # "Not fitted"
    /\ C18_Matches(models, fitted_models)

-----------------------------------------------------------------------------
(* C19: a fit that fails because the id is absent, because the candidate     *)
(* table has no entry for the current task type, because the record's name   *)
(* is not among the candidates of the current task type, because the data    *)
(* has no target or because the estimator cannot be built or fitted, leaves  *)
(* records, artifacts, counter, task type, candidate table and storage as    *)
(* they were and calls put_object not at all; each of the first three causes *)
(* does make the call fail.                                                  *)

C19_Step ==
    IsOp(lastOp', "fit") =>
        LET id == lastOp'.model_id IN
        /\ (result'.kind # "return" /\ result'.msg # "StorageError") =>
              /\ UNCHANGED registry
              /\ lastOp'.put = "no call"
        /\ lastOp'.data # "labeled" => result' = Raise("KeyError")
        /\ (lastOp'.data = "labeled" /\ id \notin Ids(models)) =>
              result' = Abort("does not exist")
        /\ (lastOp'.data = "labeled" /\ id \in Ids(models)) =>
              /\ task_type \notin DOMAIN available_models => result' = Raise("KeyError")
              /\ EntryOf(models, id)["model_name"] \notin CandidateNames(task_type) =>
                    result' = Raise("KeyError")

C19_FailedFitChangesNothing == [][C19_Step]_vars

\* fit on a registry whose candidate table was never filled
C19_Witness ==
    /\ IsOp(lastOp, "fit")
    /\ lastOp.data = "labeled"
    /\ lastOp.model_id \in Ids(models)
    /\ available_models = EmptyDict
    /\ result = Raise("KeyError")
    /\ models[1]["model"] = "Not fitted"
    /\ fitted_models[1]["model"] = "Not fitted"
    /\ KEY_MODEL \notin DOMAIN storage

-----------------------------------------------------------------------------
(* C20: predict and predict_proba return only for an id whose artifact holds *)
(* a trained estimator: for an absent id, and for an id whose artifact is    *)
(* still "Not fitted" (whatever the record's status says), both fail, under  *)
(* every task type; neither changes the registry.                            *)

C20_IsPrediction(op) == IsOp(op, "predict") \/ IsOp(op, "predict_proba")

C20_Responses ==
    C20_IsPrediction(lastOp) =>
        /\ lastOp.model_id \notin Ids(fitted_models) =>
              result.kind \in {"abort", "raise"}
        /\ (/\ lastOp.model_id \in Ids(fitted_models)
            /\ EntryOf(fitted_models, lastOp.model_id)["model"] = "Not fitted") =>
              result.kind \in {"abort", "raise"}
        /\ result.kind = "return" =>
              /\ lastOp.model_id \in Ids(models)
              /\ EntryOf(fitted_models, lastOp.model_id)["model"] \in C14_Estimators
        /\ result.kind # "return" => result.value = NoneValue

C20_Step == C20_IsPrediction(lastOp') => UNCHANGED <<registry, created>>

C20_PredictionsNeedAnEstimator == [](C20_Responses) /\ [][C20_Step]_vars

\* update_model set the status to Fitted, the artifact is not: predict fails
C20_Witness ==
    /\ IsOp(lastOp, "predict")
    /\ lastOp.model_id = 1
    /\ result = Raise("AttributeError")
    /\ Len(models) >= 1
    /\ models[1]["model"] = "Fitted"
    /\ fitted_models[1]["model"] = "Not fitted"

====
